---- MODULE Spec2Model ----
(***************************************************************************)
(* A model of code_ast: the tree walker (visitor.py), its compositions,   *)
(* the edit synthesis of ASTTransformer and the EditExecutor              *)
(* (transformer.py), span extraction (parsers.py) and SourceCodeAST       *)
(* (ast.py).                                                               *)
(*                                                                         *)
(* Text is a sequence of one-character strings; LF and CR stand for the   *)
(* line feed and the carriage return.  A point is <<row, column>>, both   *)
(* zero based, as tree-sitter reports them.                                *)
(***************************************************************************)
EXTENDS Integers, Sequences, FiniteSets, TLC

VARIABLES
    tree,          \* the parsed syntax tree: kids, type, par, sp, ep per node
    src,           \* the source text handed to ast()
    source_lines,  \* SourceCodeAST.source_lines
    kind,          \* class of the visitor object that is walked
    cls,           \* the handlers its user-written subclass defines
    nvis,          \* number of component visitors
    pc,            \* position in ASTVisitor.walk
    cursor,        \* the TreeCursor's node
    phase,         \* 0: the walk of the visitor object; v: component v walks alone
    events,        \* handler invocations of the walk of the visitor object
    solo,          \* handler invocations per component when it walks alone
    ret,           \* what each component's enter handler returns per node
    active,        \* ResumingVisitorComposition.__active_visitors
    resume_on,     \* ResumingVisitorComposition.__resume_on
    code_lines,    \* ASTTransformer.code_lines
    edit_trees,    \* ASTTransformer._edit_trees
    budget,        \* edits the handlers may still return
    walks,         \* walks started on the visitor object
    xpc,           \* position in EditExecutor.walk
    edit_stack,    \* EditExecutor._edit_stack
    target,        \* EditExecutor._target_lines, joined
    xcursor,       \* EditExecutor._cursor
    delay_move,    \* EditExecutor._delay_move
    visited,       \* SourceCodeAST.visit was called with the visitor object
    call,          \* the last API call made
    err,           \* the exception it raised, or "None"
    result,        \* what it returned
    call_args,     \* the arguments of the last API call
    results,       \* CollectingVisitor._results
    pieces,        \* the parts of EditExecutor._target_lines and where each is from
    executed       \* the source nodes of the trees _execute was called with

vars == <<tree, src, source_lines, kind, cls, nvis, pc, cursor, phase, events, solo,
          ret, active, resume_on, code_lines, edit_trees, budget, walks,
          xpc, edit_stack, target, xcursor, delay_move, visited, call, err, result,
          call_args, results, pieces, executed>>

astVars == <<tree, src, source_lines>>
walkVars == <<pc, cursor, phase, events, solo, ret, active, resume_on, results>>
synthVars == <<edit_trees, budget>>
cfgVars == <<kind, cls, nvis>>
apiVars == <<call, err, result, call_args>>
execVars == <<xpc, edit_stack, target, xcursor, delay_move, pieces, executed>>

----------------------------------------------------------------------------
(* Text and points *)

LF == "LF"
CR == "CR"
None == "None"

\* s[a:b] of Python for 0 <= a, 0 <= b: out-of-range bounds are clamped
Slice(s, a, b) ==
    SubSeq(s, a + 1, IF b < Len(s) THEN b ELSE Len(s))

\* s[a:]
SliceFrom(s, a) ==
    SubSeq(s, a + 1, Len(s))

\* "\n".join(lines)
RECURSIVE JoinLines(_)
JoinLines(ls) ==
    IF ls = <<>> THEN <<>>
    ELSE IF Len(ls) = 1 THEN ls[1]
    ELSE ls[1] \o <<LF>> \o JoinLines(Tail(ls))

\* q[::-1]
RECURSIVE Reverse(_)
Reverse(q) == IF q = <<>> THEN <<>> ELSE Append(Reverse(Tail(q)), Head(q))

\* tuple comparison of points
PLt(p, q) == p[1] < q[1] \/ (p[1] = q[1] /\ p[2] < q[2])
PLe(p, q) == p = q \/ PLt(p, q)

\* str.splitlines(): a line ends at LF, CR LF or CR; the terminators are
\* dropped and no empty line follows a final terminator
RECURSIVE SplitFrom(_, _, _, _)
SplitFrom(s, i, cur, acc) ==
    IF i > Len(s) THEN (IF cur = <<>> THEN acc ELSE Append(acc, cur))
    ELSE IF s[i] = CR /\ i < Len(s) /\ s[i + 1] = LF
         THEN SplitFrom(s, i + 2, <<>>, Append(acc, cur))
    ELSE IF s[i] = CR \/ s[i] = LF
         THEN SplitFrom(s, i + 1, <<>>, Append(acc, cur))
    ELSE SplitFrom(s, i + 1, Append(cur, s[i]), acc)

SplitLines(s) == SplitFrom(s, 1, <<>>, <<>>)

\* the point tree-sitter gives the position after the first off characters:
\* rows are counted in LF, columns from the last LF
RECURSIVE PointFrom(_, _, _, _)
PointFrom(s, off, i, p) ==
    IF i > off THEN p
    ELSE IF s[i] = LF THEN PointFrom(s, off, i + 1, <<p[1] + 1, 0>>)
    ELSE PointFrom(s, off, i + 1, <<p[1], p[2] + 1>>)

PointAt(s, off) == PointFrom(s, off, 1, <<0, 0>>)

----------------------------------------------------------------------------
(* Syntax trees.  Nodes are numbered in pre-order, node 1 is the root.  A  *)
(* shape gives the children and type of every node and the text of every   *)
(* leaf (token); the text between the tokens is chosen with the source.    *)

Shape1 ==
    [kids |-> << <<2>>, <<>> >>,
     type |-> <<"module", "identifier">>,
     text |-> << <<>>, <<"a">> >>]

Shape2 ==
    [kids |-> << <<2>>, <<3, 4, 5>>, <<>>, <<>>, <<>> >>,
     type |-> <<"module", "binary_operator", "identifier", "+", "identifier">>,
     text |-> << <<>>, <<>>, <<"x">>, <<"+">>, <<"y">> >>]

Shape3 ==
    [kids |-> << <<2, 5>>, <<3, 4>>, <<>>, <<>>, <<6>>, <<>> >>,
     type |-> <<"module", "return_statement", "return", "identifier",
                "expression_statement", "identifier">>,
     text |-> << <<>>, <<>>, <<"r">>, <<"x">>, <<>>, <<"y">> >>]

Shape4 ==
    [kids |-> << <<2>>, <<3, 4>>, <<>>, <<5, 6, 7>>, <<>>, <<>>, <<>> >>,
     type |-> <<"module", "return_statement", "return", "binary_operator",
                "identifier", "+", "identifier">>,
     text |-> << <<>>, <<>>, <<"r">>, <<>>, <<"x">>, <<"+">>, <<"y">> >>]

Shapes == <<Shape1, Shape2, Shape3, Shape4>>

\* the tree of "def foo(x, y):\n return x + y"
ShapeA ==
    [kids |-> << <<2>>, <<3, 4, 5, 11, 12>>, <<>>, <<>>, <<6, 7, 8, 9, 10>>,
                 <<>>, <<>>, <<>>, <<>>, <<>>, <<>>, <<13>>, <<14, 15>>, <<>>,
                 <<16, 17, 18>>, <<>>, <<>>, <<>> >>,
     type |-> <<"module", "function_definition", "def", "identifier",
                "parameters", "(", "identifier", ",", "identifier", ")", ":",
                "block", "return_statement", "return", "binary_operator",
                "identifier", "+", "identifier">>,
     text |-> << <<>>, <<>>, <<"d", "e", "f">>, <<"f", "o", "o">>, <<>>,
                 <<"(">>, <<"x">>, <<",">>, <<"y">>, <<")">>, <<":">>, <<>>,
                 <<>>, <<"r", "e", "t", "u", "r", "n">>, <<>>, <<"x">>,
                 <<"+">>, <<"y">> >>]

GapsA ==
    << <<>>, <<" ">>, <<>>, <<>>, <<>>, <<" ">>, <<>>, <<>>, <<LF, " ">>,
       <<" ">>, <<" ">>, <<" ">>, <<>> >>

\* number of the shapes above that the specifications draw from
NumShapes == 3

\* the text that may stand before, between and after the tokens
GapSet == { <<>>, <<" ">>, <<LF>>, <<CR, LF>> }

NodesOf(sh) == 1 .. Len(sh.kids)

IsLeaf(sh, n) == sh.kids[n] = <<>>

RECURSIVE LeavesFrom(_, _)
LeavesFrom(sh, n) ==
    IF n > Len(sh.kids) THEN <<>>
    ELSE (IF IsLeaf(sh, n) THEN <<n>> ELSE <<>>) \o LeavesFrom(sh, n + 1)

LeavesOf(sh) == LeavesFrom(sh, 1)

RECURSIVE FirstLeaf(_, _)
FirstLeaf(sh, n) ==
    IF IsLeaf(sh, n) THEN n ELSE FirstLeaf(sh, sh.kids[n][1])

RECURSIVE LastLeaf(_, _)
LastLeaf(sh, n) ==
    IF IsLeaf(sh, n) THEN n ELSE LastLeaf(sh, sh.kids[n][Len(sh.kids[n])])

\* the source: gap, token, gap, token, ..., gap
RECURSIVE SourceFrom(_, _, _, _)
SourceFrom(sh, gaps, ls, i) ==
    IF i > Len(ls) THEN gaps[i]
    ELSE gaps[i] \o sh.text[ls[i]] \o SourceFrom(sh, gaps, ls, i + 1)

SourceOf(sh, gaps) == SourceFrom(sh, gaps, LeavesOf(sh), 1)

\* characters of the source before the i-th token
RECURSIVE LeafOffset(_, _, _, _)
LeafOffset(sh, gaps, ls, i) ==
    IF i = 1 THEN Len(gaps[1])
    ELSE LeafOffset(sh, gaps, ls, i - 1) + Len(sh.text[ls[i - 1]]) + Len(gaps[i])

IndexIn(seq, x) == CHOOSE i \in 1 .. Len(seq) : seq[i] = x

ParentOf(sh, n) ==
    IF \E p \in NodesOf(sh) : \E i \in 1 .. Len(sh.kids[p]) : sh.kids[p][i] = n
    THEN CHOOSE p \in NodesOf(sh) : \E i \in 1 .. Len(sh.kids[p]) : sh.kids[p][i] = n
    ELSE 0

\* The syntax tree the parser returns for SourceOf(sh, gaps): a token spans
\* its text, an inner node spans from its first to its last token, and the
\* root reaches to the end of the source.
Parse(sh, gaps) ==
    LET s == SourceOf(sh, gaps)
        ls == LeavesOf(sh)
        startOff(n) == LeafOffset(sh, gaps, ls, IndexIn(ls, FirstLeaf(sh, n)))
        endOff(n) == LeafOffset(sh, gaps, ls, IndexIn(ls, LastLeaf(sh, n)))
                       + Len(sh.text[LastLeaf(sh, n)])
    IN [kids |-> sh.kids,
        type |-> sh.type,
        par |-> [n \in NodesOf(sh) |-> ParentOf(sh, n)],
        sp |-> [n \in NodesOf(sh) |->
                  IF n = 1 THEN <<0, 0>> ELSE PointAt(s, startOff(n))],
        ep |-> [n \in NodesOf(sh) |->
                  IF n = 1 THEN PointAt(s, Len(s)) ELSE PointAt(s, endOff(n))]]

\* every choice of the text around the tokens of a shape
GapsFor(sh) == [1 .. (Len(LeavesOf(sh)) + 1) -> GapSet]

\* the layout with one space between the tokens
PlainGaps(sh) ==
    [i \in 1 .. (Len(LeavesOf(sh)) + 1) |->
        IF i = 1 \/ i = Len(LeavesOf(sh)) + 1 THEN <<>> ELSE <<" ">>]

\* ASTParser.parse: the lines of the source, next to the tree
ParseLines(s) == SplitLines(s)

Nodes == DOMAIN tree.kids
Root == 1
child_count(n) == Len(tree.kids[n])

RECURSIVE Descendants(_)
Descendants(n) ==
    LET ks == {tree.kids[n][i] : i \in 1 .. Len(tree.kids[n])}
    IN ks \cup UNION {Descendants(k) : k \in ks}

\* parsers.match_span: the text of a node cut from the lines; Python raises
\* IndexError when the start line does not exist
match_span(n, lines) ==
    LET start_line == tree.sp[n][1]
        start_char == tree.sp[n][2]
        end_line == tree.ep[n][1]
        end_char == tree.ep[n][2]
        hi == IF end_line + 1 < Len(lines) THEN end_line + 1 ELSE Len(lines)
        source_area == SubSeq(lines, start_line + 1, hi)
    IN IF ~(start_line <= end_line) \/ ~(start_line # end_line \/ start_char <= end_char)
       THEN [err |-> "AssertionError", text |-> <<>>]
       ELSE IF source_area = <<>>
       THEN [err |-> "IndexError", text |-> <<>>]
       ELSE IF start_line = end_line
       THEN [err |-> None, text |-> Slice(source_area[1], start_char, end_char)]
       ELSE LET k == Len(source_area)
                a1 == [source_area EXCEPT ![1] = SliceFrom(source_area[1], start_char)]
                a2 == [a1 EXCEPT ![k] = Slice(a1[k], 0, end_char)]
            IN [err |-> None, text |-> JoinLines(a2)]

----------------------------------------------------------------------------
(* Handlers.  An enter handler returns None (no return statement), False   *)
(* or another falsy value; a handler depends on the node only, so what it  *)
(* returned for a node is kept in ret.                                     *)

\* number of component visitors of a composition
MaxVisitors == 2

\* walks one ASTTransformer object may be used for
MaxWalks == 2

\* edits the handlers of one transformer return
MaxEdits == 2

EnterResults ==
    IF cls = "Reused" THEN {"None", "False"}
    ELSE IF cls # "Any" THEN {"None"}
    ELSE IF kind = "ASTVisitor" THEN {"None", "False", "Zero", "EmptyStr"}
    ELSE {"None", "False"}

Choices(v, n) ==
    IF ret[v][n] = "unset" THEN EnterResults ELSE {ret[v][n]}

\* the types the user's class has visit_<type> and leave_<type> methods for
SpecificEnter == {"identifier"}
SpecificLeave == {"binary_operator"}

\* getattr(self, "visit_%s" % node.type, self.visit)
visitor_fn(n) ==
    IF tree.type[n] \in SpecificEnter THEN <<"visit", tree.type[n]>> ELSE <<"visit">>

\* getattr(self, "leave_%s" % node.type, self.leave)
leave_fn(n) ==
    IF tree.type[n] \in SpecificLeave THEN <<"leave", tree.type[n]>> ELSE <<"leave">>

EnterEv(v, n, r) == [v |-> v, ev |-> "enter", node |-> n, fn |-> visitor_fn(n), res |-> r]
LeaveEv(v, n, u) == [v |-> v, ev |-> "leave", node |-> n, fn |-> leave_fn(n), res |-> u]

\* on_visit that lets every result descend
IsNotFalseAlways(r) == TRUE

\* on_visit that descends on truthy results only
IsNotFalseTruthy(r) == r \notin {"False", "None", "Zero", "EmptyStr"}

\* ASTVisitor.on_visit: visitor_fn(node) is not False
IsNotFalse(r) == r # "False"

\* ASTVisitor.on_visit of component v: anything but False descends
BaseVisit(v, n, r) ==
    [evs |-> <<EnterEv(v, n, r)>>, descend |-> IsNotFalse(r),
     act |-> active, res |-> resume_on]

\* a composition that asks every component and descends when one agrees
AndVisitAny(n, v, rs) ==
    [evs |-> [w \in 1 .. nvis |-> EnterEv(w, n, rs[w])],
     descend |-> \E w \in 1 .. nvis : IsNotFalse(rs[w]),
     act |-> active, res |-> resume_on]

\* VisitorComposition.on_visit from component v on: the first component
\* that returns False ends the loop
RECURSIVE AndVisit(_, _, _)
AndVisit(n, v, rs) ==
    IF v > nvis THEN [evs |-> <<>>, descend |-> TRUE, act |-> active, res |-> resume_on]
    ELSE IF ~IsNotFalse(rs[v])
         THEN [evs |-> <<EnterEv(v, n, rs[v])>>, descend |-> FALSE,
               act |-> active, res |-> resume_on]
    ELSE LET rest == AndVisit(n, v + 1, rs)
         IN [rest EXCEPT !.evs = <<EnterEv(v, n, rs[v])>> \o @]

\* VisitorComposition.on_leave
RECURSIVE AndLeave(_, _)
AndLeave(n, v) ==
    IF v > nvis THEN <<>> ELSE <<LeaveEv(v, n, None)>> \o AndLeave(n, v + 1)

\* ResumingVisitorComposition.on_visit from position pos on
RECURSIVE ResumeVisit(_, _, _, _, _, _)
ResumeVisit(n, pos, rs, act, res, evs) ==
    IF pos > nvis
    THEN [evs |-> evs, descend |-> \E q \in 1 .. nvis : act[q],
          act |-> act, res |-> res]
    ELSE IF ~act[pos] THEN ResumeVisit(n, pos + 1, rs, act, res, evs)
    ELSE IF ~IsNotFalse(rs[pos])
         THEN ResumeVisit(n, pos + 1, rs, [act EXCEPT ![pos] = FALSE],
                          [res EXCEPT ![pos] = n], Append(evs, EnterEv(pos, n, rs[pos])))
    ELSE ResumeVisit(n, pos + 1, rs, act, res, Append(evs, EnterEv(pos, n, rs[pos])))

\* an on_leave that never resumes an inactive component
RECURSIVE ResumeLeaveStuck(_, _, _, _)
ResumeLeaveStuck(n, pos, act, evs) ==
    IF pos > nvis THEN [evs |-> evs, act |-> act]
    ELSE IF ~act[pos] THEN ResumeLeaveStuck(n, pos + 1, act, evs)
    ELSE ResumeLeaveStuck(n, pos + 1, act, Append(evs, LeaveEv(pos, n, None)))

\* ResumingVisitorComposition.on_leave from position pos on
RECURSIVE ResumeLeave(_, _, _, _)
ResumeLeave(n, pos, act, evs) ==
    IF pos > nvis THEN [evs |-> evs, act |-> act]
    ELSE IF ~act[pos]
         THEN (IF resume_on[pos] = n
               THEN ResumeLeave(n, pos + 1, [act EXCEPT ![pos] = TRUE],
                                Append(evs, LeaveEv(pos, n, None)))
               ELSE ResumeLeave(n, pos + 1, act, evs))
    ELSE ResumeLeave(n, pos + 1, act, Append(evs, LeaveEv(pos, n, None)))

\* on_visit of the walking object, given what the handlers return
OnVisit(n, rs) ==
    IF phase > 0 THEN BaseVisit(phase, n, rs[phase])
    ELSE IF kind = "VisitorComposition" THEN AndVisit(n, 1, rs)
    ELSE IF kind = "ResumingVisitorComposition"
         THEN ResumeVisit(n, 1, rs, active, resume_on, <<>>)
    ELSE BaseVisit(1, n, rs[1])

\* the events and activity flags on_leave of the walking object leaves behind
OnLeave(n, u) ==
    IF phase > 0 THEN [evs |-> <<LeaveEv(phase, n, None)>>, act |-> active]
    ELSE IF kind = "VisitorComposition" THEN [evs |-> AndLeave(n, 1), act |-> active]
    ELSE IF kind = "ResumingVisitorComposition" THEN ResumeLeave(n, 1, active, <<>>)
    ELSE IF kind = "ASTTransformer" THEN [evs |-> <<LeaveEv(1, n, u)>>, act |-> active]
    ELSE [evs |-> <<LeaveEv(1, n, None)>>, act |-> active]

----------------------------------------------------------------------------
(* Edit operations and the edit tree *)

Upd(t, x, n, a) == [type |-> t, text |-> x, node |-> n, args |-> a]

NoEdit == Upd("None", <<>>, 0, <<>>)
SubtreeUpdate == Upd("SubtreeUpdate", <<>>, 0, <<>>)
TextUpdate(t) == Upd("TextUpdate", t, 0, <<>>)
NodeUpdate(n) == Upd("NodeUpdate", <<>>, n, <<>>)
TreeUpdate(n) == Upd("TreeUpdate", <<>>, n, <<>>)
FormattedUpdate(f, a) == Upd("FormattedUpdate", f, 0, a)

\* what a leave handler may also return: a bare string, or a value that is
\* neither a string nor an EditUpdate
StrValue(t) == Upd("str", t, 0, <<>>)
OtherValue == Upd("int", <<>>, 0, <<>>)

EditUpdateTypes ==
    {"SubtreeUpdate", "TextUpdate", "NodeUpdate", "TreeUpdate", "FormattedUpdate"}

\* the template " %s + %s" of the test's MirrorAddTransformer; "%s" is one
\* conversion
MirrorFormat == <<" ", "%s", " ", "+", " ", "%s">>

\* MirrorAddTransformer.leave_binary_operator
MirrorAdd(n) ==
    IF tree.type[n] = "binary_operator" /\ tree.type[tree.kids[n][2]] = "+"
    THEN FormattedUpdate(MirrorFormat,
                         <<TreeUpdate(tree.kids[n][3]), TreeUpdate(tree.kids[n][1])>>)
    ELSE NoEdit

\* what the leave handler of the user's class returns for node n
LeaveResults(n) ==
    IF kind # "ASTTransformer" THEN {NoEdit}
    ELSE IF cls = "MirrorAddTransformer" THEN {MirrorAdd(n)}
    ELSE IF budget = 0 THEN {NoEdit}
    ELSE IF cls \in {"TextEditor", "Reused"} THEN {NoEdit, StrValue(<<"T">>)}
    ELSE {NoEdit, StrValue(<<"T">>), OtherValue, SubtreeUpdate, NodeUpdate(Root)}
         \cup {TreeUpdate(d) : d \in Descendants(n)}
         \cup {NodeUpdate(tree.kids[n][1]) : i \in 1 .. (IF child_count(n) > 0 THEN 1 ELSE 0)}
         \cup {FormattedUpdate(MirrorFormat,
                               <<TreeUpdate(tree.kids[n][3]), TreeUpdate(tree.kids[n][1])>>)
                 : i \in 1 .. (IF child_count(n) >= 3 THEN 1 ELSE 0)}

\* a constructor that never puts the delegation marker
EditTreeNoMarker(source_node, target_edit, children) ==
    [source_node |-> source_node, target_edit |-> target_edit,
     children |-> [i \in 1 .. Len(children) |->
                     IF children[i].target_edit = NoEdit
                     THEN [children[i] EXCEPT !.children = <<>>]
                     ELSE children[i]]]

\* EditTree.__init__: the children of an unedited child are dropped, and a
\* tree without an edit of its own above an edited child delegates
EditTree(source_node, target_edit, children) ==
    LET cs == [i \in 1 .. Len(children) |->
                 IF children[i].target_edit = NoEdit
                 THEN [children[i] EXCEPT !.children = <<>>]
                 ELSE children[i]]
        te == IF target_edit = NoEdit
                 /\ \E i \in 1 .. Len(cs) : cs[i].target_edit # NoEdit
              THEN SubtreeUpdate
              ELSE target_edit
    IN [source_node |-> source_node, target_edit |-> te, children |-> cs]

\* a normalisation without the string case: a bare string counts as no edit
NormalizeUpdateNoStr(u) ==
    IF u.type \in EditUpdateTypes THEN u ELSE NoEdit

\* the normalisation in ASTTransformer.on_leave: a string becomes a
\* TextUpdate, anything that is no EditUpdate counts as no edit
NormalizeUpdate(u) ==
    IF u.type = "str" THEN TextUpdate(u.text)
    ELSE IF u.type \in EditUpdateTypes THEN u
    ELSE NoEdit

\* an on_leave that keeps the child trees in the order they were popped
TransformerLeaveReversed(n, u, stack) ==
    LET num_children == child_count(n)
        k == Len(stack)
    IN IF k < num_children
       THEN [err |-> "IndexError", stack |-> <<>>]
       ELSE [err |-> None,
             stack |-> Append(SubSeq(stack, 1, k - num_children),
                              EditTree(n, NormalizeUpdate(u),
                                       Reverse(SubSeq(stack, k - num_children + 1, k))))]

\* ASTTransformer.on_leave after the handler returned u: child_count trees
\* are popped (IndexError on an empty list, with the list left empty) and
\* the new tree is pushed
TransformerLeave(n, u, stack) ==
    LET num_children == child_count(n)
        k == Len(stack)
    IN IF k < num_children
       THEN [err |-> "IndexError", stack |-> <<>>]
       ELSE [err |-> None,
             stack |-> Append(SubSeq(stack, 1, k - num_children),
                              EditTree(n, NormalizeUpdate(u),
                                       SubSeq(stack, k - num_children + 1, k)))]

IsEdit(u) == u # NoEdit

----------------------------------------------------------------------------
(* Compilation of an edit operation to text *)

\* format_str % args: every "%s" takes the next argument; Python raises
\* TypeError when the numbers of conversions and arguments differ
RECURSIVE FormatFrom(_, _, _, _)
FormatFrom(f, i, args, j) ==
    IF i > Len(f)
    THEN (IF j = Len(args) + 1 THEN [err |-> None, text |-> <<>>]
          ELSE [err |-> "TypeError", text |-> <<>>])
    ELSE IF f[i] = "%s"
         THEN (IF j > Len(args) THEN [err |-> "TypeError", text |-> <<>>]
               ELSE LET rest == FormatFrom(f, i + 1, args, j + 1)
                    IN [rest EXCEPT !.text = args[j] \o @])
    ELSE LET rest == FormatFrom(f, i + 1, args, j)
         IN [rest EXCEPT !.text = <<f[i]>> \o @]

\* the first sub edit that carries an edit and belongs to node n, or 0
FindSubEdit(sub_edits, n) ==
    LET hits == {i \in 1 .. Len(sub_edits) :
                    sub_edits[i].target_edit # NoEdit /\ sub_edits[i].source_node = n}
    IN IF hits = {} THEN 0 ELSE CHOOSE i \in hits : \A j \in hits : i <= j

\* EditUpdate.compile and its overrides
RECURSIVE Compile(_, _, _)
Compile(u, sub_edits, lines) ==
    IF u.type = "TextUpdate" THEN [err |-> None, text |-> u.text]
    ELSE IF u.type = "NodeUpdate" THEN match_span(u.node, lines)
    ELSE IF u.type = "TreeUpdate"
         THEN LET i == FindSubEdit(sub_edits, u.node)
              IN IF i = 0 THEN match_span(u.node, lines)
                 ELSE Compile(sub_edits[i].target_edit, sub_edits[i].children, lines)
    ELSE IF u.type = "FormattedUpdate"
         THEN LET cs == [i \in 1 .. Len(u.args) |-> Compile(u.args[i], sub_edits, lines)]
                  bad == {i \in 1 .. Len(cs) : cs[i].err # None}
              IN IF bad # {}
                 THEN [err |-> cs[CHOOSE i \in bad : \A j \in bad : i <= j].err,
                       text |-> <<>>]
                 ELSE FormatFrom(u.text, 1, [i \in 1 .. Len(cs) |-> cs[i].text], 1)
    ELSE [err |-> None, text |-> <<>>]

----------------------------------------------------------------------------
(* The edit executor *)

\* EditExecutor._move_cursor: copy the source from cur up to position
RECURSIVE MoveCursor(_, _, _, _)
MoveCursor(cur, position, out, lines) ==
    IF cur[1] < position[1]
    THEN IF cur[1] + 1 > Len(lines)
         THEN [err |-> "IndexError", cursor |-> cur, out |-> out]
         ELSE LET add_part == IF cur[2] = 0 THEN lines[cur[1] + 1]
                              ELSE SliceFrom(lines[cur[1] + 1], cur[2])
              IN MoveCursor(<<cur[1] + 1, 0>>, position, out \o add_part \o <<LF>>, lines)
    ELSE IF cur[2] < position[2]
    THEN IF cur[1] + 1 > Len(lines)
         THEN [err |-> "IndexError", cursor |-> cur, out |-> out]
         ELSE [err |-> None, cursor |-> <<cur[1], position[2]>>,
               out |-> out \o Slice(lines[cur[1] + 1], cur[2], position[2])]
    ELSE [err |-> None, cursor |-> cur, out |-> out]

\* _move_cursor with its assertion
move_cursor(cur, position, out, lines) ==
    IF ~PLe(cur, position) THEN [err |-> "AssertionError", cursor |-> cur, out |-> out]
    ELSE MoveCursor(cur, position, out, lines)

\* if self._delay_move >= self._cursor: move the cursor there
Flush(cur, delay, out, lines) ==
    IF PLe(cur, delay) THEN move_cursor(cur, delay, out, lines)
    ELSE [err |-> None, cursor |-> cur, out |-> out]

----------------------------------------------------------------------------
(* The state after ast(source) built a SourceCodeAST and the visitor       *)
(* object was constructed                                                  *)

InitWith(sh, gaps, k, c, n, b) ==
    /\ tree = Parse(sh, gaps)
    /\ src = SourceOf(sh, gaps)
    /\ source_lines = ParseLines(SourceOf(sh, gaps))
    /\ kind = k
    /\ cls = c
    /\ nvis = n
    /\ pc = "idle"
    /\ cursor = 0
    /\ phase = 0
    /\ events = <<>>
    /\ solo = [v \in 1 .. n |-> <<>>]
    /\ ret = [v \in 1 .. n |-> [m \in NodesOf(sh) |-> "unset"]]
    /\ active = [v \in 1 .. n |-> TRUE]
    /\ resume_on = [v \in 1 .. n |-> 0]
    /\ code_lines = None
    /\ edit_trees = <<>>
    /\ budget = b
    /\ walks = 0
    /\ xpc = "idle"
    /\ edit_stack = <<>>
    /\ target = <<>>
    /\ xcursor = <<0, 0>>
    /\ delay_move = <<0, 0>>
    /\ visited = FALSE
    /\ call = None
    /\ err = None
    /\ result = None
    /\ call_args = <<>>
    /\ results = <<>>
    /\ pieces = <<>>
    /\ executed = <<>>

----------------------------------------------------------------------------
(* SourceCodeAST.visit and visit_tree *)

\* visit_tree(root, visitor_fn) with an ASTVisitor instance: the branch
\* reads the local name visitor before it is assigned
visit_tree_error == "UnboundLocalError"

\* SourceCodeAST.visit(visitor): from_code_lines when the visitor has it,
\* then visit_tree
VisitAST ==
    /\ pc = "idle"
    /\ walks = 0
    /\ ~visited
    /\ visited' = TRUE
    /\ code_lines' = IF kind = "ASTTransformer" THEN source_lines ELSE code_lines
    /\ call' = "visit"
    /\ err' = visit_tree_error
    /\ result' = None
    /\ call_args' = <<>>
    /\ UNCHANGED <<astVars, cfgVars, walkVars, synthVars, walks, execVars>>

\* ASTTransformer.from_code_lines(ast.source_lines)
FromCodeLines ==
    /\ kind = "ASTTransformer"
    /\ pc = "idle"
    /\ code_lines = None
    /\ code_lines' = source_lines
    /\ call' = "from_code_lines"
    /\ err' = None
    /\ result' = None
    /\ call_args' = <<>>
    /\ UNCHANGED <<astVars, cfgVars, walkVars, synthVars, walks, execVars, visited>>

----------------------------------------------------------------------------
(* ASTVisitor.walk *)

\* a walk per object, but for the transformer that is used again
WalkLimit == IF cls = "Reused" THEN MaxWalks ELSE 1

\* a cursor that steps over a sibling
NextSiblingSkip(n) ==
    LET p == tree.par[n]
    IN IF p = 0 THEN 0
       ELSE LET i == IndexIn(tree.kids[p], n)
            IN IF i + 1 < Len(tree.kids[p]) THEN tree.kids[p][i + 2] ELSE 0

\* TreeCursor.goto_next_sibling: the next sibling of n, or 0
NextSibling(n) ==
    LET p == tree.par[n]
    IN IF p = 0 THEN 0
       ELSE LET i == IndexIn(tree.kids[p], n)
            IN IF i < Len(tree.kids[p]) THEN tree.kids[p][i + 1] ELSE 0

Log(evs) ==
    IF phase = 0
    THEN events' = events \o evs /\ solo' = solo
    ELSE solo' = [solo EXCEPT ![phase] = @ \o evs] /\ events' = events

RECURSIVE Remember(_, _)
Remember(r, evs) ==
    IF evs = <<>> THEN r
    ELSE Remember([r EXCEPT ![Head(evs).v][Head(evs).node] = Head(evs).res], Tail(evs))


\* visitor.walk(root_node), or visitor(root_node)
StartWalk ==
    /\ pc \in {"idle", "done"}
    /\ phase = 0
    /\ ~visited
    /\ xpc = "idle"
    /\ walks < WalkLimit
    /\ kind = "ASTTransformer" => code_lines # None
    /\ pc' = "visit"
    /\ cursor' = Root
    /\ walks' = walks + 1
    /\ ret' = [v \in 1 .. nvis |-> [m \in Nodes |-> "unset"]]
    /\ call' = "walk"
    /\ err' = None
    /\ result' = None
    /\ call_args' = <<>>
    /\ UNCHANGED <<astVars, cfgVars, phase, events, solo, active, resume_on, results,
                   code_lines, synthVars, execVars, visited>>

\* Step 1 of the loop: on_visit(current_node), then goto_first_child
Enter ==
    /\ pc = "visit"
    /\ \E rs \in [1 .. nvis -> EnterResults] :
          /\ \A v \in 1 .. nvis : rs[v] \in Choices(v, cursor)
          /\ LET o == OnVisit(cursor, rs)
             IN /\ Log(o.evs)
                /\ ret' = Remember(ret, o.evs)
                /\ results' = results
                /\ active' = o.act
                /\ resume_on' = o.res
                /\ IF o.descend /\ child_count(cursor) > 0
                   THEN cursor' = tree.kids[cursor][1] /\ pc' = "visit"
                   ELSE cursor' = cursor /\ pc' = "leave"
    /\ UNCHANGED <<astVars, cfgVars, phase, code_lines, synthVars, walks, execVars,
                   visited, apiVars>>

\* on_leave(n) of the walking object, then goto_next_sibling
LeaveNode(n) ==
    \E u \in LeaveResults(n) :
        LET o == OnLeave(n, u)
            t == IF kind = "ASTTransformer" THEN TransformerLeave(n, u, edit_trees)
                 ELSE [err |-> None, stack |-> edit_trees]
        IN /\ Log(o.evs)
           /\ active' = o.act
           /\ edit_trees' = t.stack
           /\ budget' = IF IsEdit(u) /\ cls # "MirrorAddTransformer"
                        THEN budget - 1 ELSE budget
           /\ IF t.err # None
              THEN /\ pc' = "error"
                   /\ cursor' = n
                   /\ err' = t.err
              ELSE /\ err' = err
                   /\ IF NextSibling(n) # 0
                      THEN cursor' = NextSibling(n) /\ pc' = "visit"
                      ELSE cursor' = n /\ pc' = "up"
           /\ UNCHANGED <<astVars, cfgVars, phase, ret, resume_on, results, code_lines,
                          walks, execVars, visited, call, result, call_args>>

\* Step 2 of the loop: the node was not descended into
Leave ==
    /\ pc = "leave"
    /\ LeaveNode(cursor)

\* a step 3 that goes up without calling on_leave
LeaveParentSilent ==
    /\ pc = "up"
    /\ tree.par[cursor] # 0
    /\ IF NextSibling(tree.par[cursor]) # 0
       THEN cursor' = NextSibling(tree.par[cursor]) /\ pc' = "visit"
       ELSE cursor' = tree.par[cursor] /\ pc' = "up"
    /\ UNCHANGED <<astVars, cfgVars, phase, events, solo, ret, active, resume_on,
                   results, code_lines, synthVars, walks, execVars, visited, apiVars>>

\* Step 3 of the loop: goto_parent succeeded
LeaveParent ==
    /\ pc = "up"
    /\ tree.par[cursor] # 0
    /\ LeaveNode(tree.par[cursor])

\* Step 3 of the loop: goto_parent failed at the root, the walk returns
Finish ==
    /\ pc = "up"
    /\ tree.par[cursor] = 0
    /\ pc' = "done"
    /\ UNCHANGED <<astVars, cfgVars, cursor, phase, events, solo, ret, active,
                   resume_on, results, code_lines, synthVars, walks, execVars, visited,
                   apiVars>>

\* component v walks the same tree alone, after the composition did
StartSolo ==
    /\ kind = "ResumingVisitorComposition"
    /\ pc = "done"
    /\ phase < nvis
    /\ phase' = phase + 1
    /\ pc' = "visit"
    /\ cursor' = Root
    /\ UNCHANGED <<astVars, cfgVars, events, solo, ret, active, resume_on, results,
                   code_lines, synthVars, walks, execVars, visited, apiVars>>

----------------------------------------------------------------------------
(* visit_tree with a function or a type name, and CollectingVisitor *)

\* nodes for which the visitor function returns something else than None
MaxHits == 2

\* the type name handed to visit_tree in place of a function
TypeArg == "identifier"

\* what the visitor function returns for node n: a boolean, nothing, a
\* falsy value (0, "", []) or a truthy value (1, "v"); a type name stands
\* for lambda node: node.type == node_type
MapResults(n) ==
    IF cls = "ByType" THEN {IF tree.type[n] = TypeArg THEN "True" ELSE "False"}
    ELSE IF budget = 0 THEN {"None"}
    ELSE {"None", "False", "True", "Zero", "EmptyStr", "EmptyList", "One", "Text"}

\* bool(result)
Truthy(r) == r \in {"True", "One", "Text"}

NodeEntry(n) == [node |-> n, value |-> "node"]
ValueEntry(r) == [node |-> 0, value |-> r]

\* a visit that appends the node for every truthy result
CollectVisitNodeOnly(n, r, rs) ==
    IF Truthy(r) THEN Append(rs, NodeEntry(n)) ELSE rs

\* CollectingVisitor.visit after map_fn(node) returned r: _results afterwards
CollectVisit(n, r, rs) ==
    IF Truthy(r)
    THEN Append(rs, IF r = "True" THEN NodeEntry(n) ELSE ValueEntry(r))
    ELSE rs

MapEv(n, r) == [v |-> 1, ev |-> "map", node |-> n, fn |-> <<"map_fn">>, res |-> r]

\* visit_tree(ast, visitor_fn) with something that is no ASTVisitor: a type
\* name becomes a function, anything else must be callable; then a
\* CollectingVisitor is built and walks from the root
VisitTree ==
    /\ kind = "CollectingVisitor"
    /\ pc = "idle"
    /\ walks = 0
    /\ call' = "visit_tree"
    /\ call_args' = <<cls>>
    /\ result' = None
    /\ results' = <<>>
    /\ IF cls = "NotCallable"
       THEN /\ err' = "AssertionError"
            /\ UNCHANGED <<pc, cursor, walks>>
       ELSE /\ err' = None
            /\ pc' = "visit"
            /\ cursor' = Root
            /\ walks' = walks + 1
    /\ UNCHANGED <<astVars, cfgVars, phase, events, solo, ret, active, resume_on,
                   code_lines, synthVars, execVars, visited>>

\* Step 1 of the loop for the CollectingVisitor: on_visit finds no
\* visit_<type> method, calls visit, which calls map_fn and returns True
EnterCollect ==
    /\ kind = "CollectingVisitor"
    /\ pc = "visit"
    /\ \E r \in MapResults(cursor) :
          /\ results' = CollectVisit(cursor, r, results)
          /\ budget' = IF r # "None" /\ cls # "ByType" THEN budget - 1 ELSE budget
          /\ events' = events \o <<MapEv(cursor, r),
                                    [v |-> 1, ev |-> "enter", node |-> cursor,
                                     fn |-> <<"visit">>, res |-> "True"]>>
    /\ IF IsNotFalse("True") /\ child_count(cursor) > 0
       THEN cursor' = tree.kids[cursor][1] /\ pc' = "visit"
       ELSE cursor' = cursor /\ pc' = "leave"
    /\ UNCHANGED <<astVars, cfgVars, phase, solo, ret, active, resume_on, code_lines,
                   edit_trees, walks, execVars, visited, apiVars>>

\* the walk returns and visit_tree returns visitor._results
FinishCollect ==
    /\ kind = "CollectingVisitor"
    /\ pc = "up"
    /\ tree.par[cursor] = 0
    /\ pc' = "done"
    /\ result' = results
    /\ UNCHANGED <<astVars, cfgVars, cursor, phase, events, solo, ret, active,
                   resume_on, results, code_lines, synthVars, walks, execVars, visited,
                   call, err, call_args>>

----------------------------------------------------------------------------
(* ASTTransformer.edit, ASTTransformer.code and EditExecutor.walk *)

\* an assertion that only asks for a tree to be there
EditReadyAny == Len(edit_trees) >= 1

\* the assertion of ASTTransformer.edit
EditReady == Len(edit_trees) = 1

\* transformer.edit()
CallEdit ==
    /\ kind = "ASTTransformer"
    /\ pc \in {"idle", "done", "error"}
    /\ xpc = "idle"
    /\ call' = "edit"
    /\ IF EditReady
       THEN err' = None /\ result' = edit_trees[1]
       ELSE err' = "AssertionError" /\ result' = None
    /\ call_args' = <<>>
    /\ UNCHANGED <<astVars, cfgVars, walkVars, code_lines, synthVars, walks,
                   execVars, visited>>

\* transformer.code(): edit(), then EditTree.apply builds the executor
CallCode ==
    /\ kind = "ASTTransformer"
    /\ pc \in {"idle", "done", "error"}
    /\ xpc = "idle"
    /\ call' = "code"
    /\ result' = None
    /\ IF EditReady
       THEN /\ err' = None
            /\ xpc' = "run"
            /\ edit_stack' = <<edit_trees[1]>>
            /\ target' = <<>>
            /\ xcursor' = <<0, 0>>
            /\ delay_move' = <<0, 0>>
            /\ pieces' = <<>>
            /\ executed' = <<>>
       ELSE /\ err' = "AssertionError"
            /\ UNCHANGED execVars
    /\ call_args' = <<>>
    /\ UNCHANGED <<astVars, cfgVars, walkVars, code_lines, synthVars, walks, visited>>

Top == edit_stack[Len(edit_stack)]
Rest == SubSeq(edit_stack, 1, Len(edit_stack) - 1)

\* _execute on a tree without an edit: _execute_noop delays the cursor
ExecNoop ==
    /\ xpc = "run"
    /\ edit_stack # <<>>
    /\ Top.target_edit = NoEdit
    /\ edit_stack' = Rest
    /\ executed' = Append(executed, Top.source_node)
    /\ IF PLe(xcursor, tree.ep[Top.source_node])
       THEN /\ delay_move' = tree.ep[Top.source_node]
            /\ xpc' = xpc
            /\ err' = err
       ELSE /\ delay_move' = delay_move
            /\ xpc' = "error"
            /\ err' = "AssertionError"
    /\ UNCHANGED <<astVars, cfgVars, walkVars, code_lines, synthVars, walks,
                   target, xcursor, pieces, visited, call, result, call_args>>

\* a variant that pushes the children without reversing them
ExecSubtreeUnreversed ==
    /\ xpc = "run"
    /\ edit_stack # <<>>
    /\ Top.target_edit = SubtreeUpdate
    /\ edit_stack' = Rest \o Top.children
    /\ executed' = Append(executed, Top.source_node)
    /\ UNCHANGED <<astVars, cfgVars, walkVars, code_lines, synthVars, walks,
                   xpc, target, xcursor, delay_move, pieces, visited, apiVars>>

\* _execute on a delegating tree: its children are pushed, the first on top
ExecSubtree ==
    /\ xpc = "run"
    /\ edit_stack # <<>>
    /\ Top.target_edit = SubtreeUpdate
    /\ edit_stack' = Rest \o Reverse(Top.children)
    /\ executed' = Append(executed, Top.source_node)
    /\ UNCHANGED <<astVars, cfgVars, walkVars, code_lines, synthVars, walks,
                   xpc, target, xcursor, delay_move, pieces, visited, apiVars>>

\* what _move_cursor appended to _target_lines between two cursors
Copied(from, f) ==
    IF f.cursor = from THEN <<>>
    ELSE <<[kind |-> "copy", node |-> 0, from |-> from, to |-> f.cursor]>>

\* what _execute appended to _target_lines for the edit of node n
Compiled(n, text) ==
    [kind |-> "edit", node |-> n, from |-> tree.sp[n], to |-> tree.ep[n], text |-> text]

\* a variant that leaves the cursor where the flush put it
ExecEditNoSkip ==
    /\ xpc = "run"
    /\ edit_stack # <<>>
    /\ Top.target_edit # NoEdit
    /\ Top.target_edit # SubtreeUpdate
    /\ edit_stack' = Rest
    /\ executed' = Append(executed, Top.source_node)
    /\ LET f == Flush(xcursor, delay_move, target, code_lines)
           c == Compile(Top.target_edit, Top.children, code_lines)
       IN IF f.err # None
          THEN /\ xpc' = "error"
               /\ err' = f.err
               /\ target' = f.out
               /\ xcursor' = f.cursor
               /\ delay_move' = delay_move
               /\ pieces' = pieces \o Copied(xcursor, f)
          ELSE /\ delay_move' = IF PLe(xcursor, delay_move) THEN f.cursor ELSE delay_move
               /\ xcursor' = f.cursor
               /\ IF c.err # None
                  THEN /\ xpc' = "error" /\ err' = c.err /\ target' = f.out
                       /\ pieces' = pieces \o Copied(xcursor, f)
                  ELSE /\ xpc' = xpc /\ err' = err /\ target' = f.out \o c.text
                       /\ pieces' = pieces \o Copied(xcursor, f)
                                        \o <<Compiled(Top.source_node, c.text)>>
    /\ UNCHANGED <<astVars, cfgVars, walkVars, code_lines, synthVars, walks,
                   visited, call, result, call_args>>


\* _execute on an edited tree: flush the delayed copy, skip the node's
\* span, append the compiled edit
ExecEdit ==
    /\ xpc = "run"
    /\ edit_stack # <<>>
    /\ Top.target_edit # NoEdit
    /\ Top.target_edit # SubtreeUpdate
    /\ edit_stack' = Rest
    /\ executed' = Append(executed, Top.source_node)
    /\ LET f == Flush(xcursor, delay_move, target, code_lines)
           c == Compile(Top.target_edit, Top.children, code_lines)
       IN IF f.err # None
          THEN /\ xpc' = "error"
               /\ err' = f.err
               /\ target' = f.out
               /\ xcursor' = f.cursor
               /\ delay_move' = delay_move
               /\ pieces' = pieces \o Copied(xcursor, f)
          ELSE /\ delay_move' = IF PLe(xcursor, delay_move) THEN f.cursor ELSE delay_move
               /\ xcursor' = tree.ep[Top.source_node]
               /\ IF c.err # None
                  THEN /\ xpc' = "error" /\ err' = c.err /\ target' = f.out
                       /\ pieces' = pieces \o Copied(xcursor, f)
                  ELSE /\ xpc' = xpc /\ err' = err /\ target' = f.out \o c.text
                       /\ pieces' = pieces \o Copied(xcursor, f)
                                        \o <<Compiled(Top.source_node, c.text)>>
    /\ UNCHANGED <<astVars, cfgVars, walkVars, code_lines, synthVars, walks,
                   visited, call, result, call_args>>

\* the stack is empty: the last flush, then "".join(self._target_lines)
ExecFinish ==
    /\ xpc = "run"
    /\ edit_stack = <<>>
    /\ LET f == Flush(xcursor, delay_move, target, code_lines)
       IN /\ target' = f.out
          /\ xcursor' = f.cursor
          /\ pieces' = pieces \o Copied(xcursor, f)
          /\ executed' = executed
          /\ delay_move' = IF PLe(xcursor, delay_move) /\ f.err = None
                           THEN f.cursor ELSE delay_move
          /\ IF f.err # None
             THEN xpc' = "error" /\ err' = f.err /\ result' = result
             ELSE xpc' = "done" /\ err' = err /\ result' = f.out
    /\ UNCHANGED <<astVars, cfgVars, walkVars, code_lines, synthVars, walks,
                   edit_stack, visited, call, call_args>>

----------------------------------------------------------------------------
(* SourceCodeAST.replace, replace_all and match_span on given lines *)

\* spans one call of replace_all is given
MaxSpans == 2

\* the replacement texts, in the order the calls hand them over
Targets == << <<"T">>, <<"U">>, <<"V">>, <<"W">> >>

\* the order of the characters of the replacement texts
CharCode(c) == IndexIn(<<"T", "U", "V", "W">>, c)

\* str < str
RECURSIVE StrLt(_, _)
StrLt(a, b) ==
    IF b = <<>> THEN FALSE
    ELSE IF a = <<>> THEN TRUE
    ELSE IF Head(a) = Head(b) THEN StrLt(Tail(a), Tail(b))
    ELSE CharCode(Head(a)) < CharCode(Head(b))

\* (start_point, end_point, target) of a node
SpanOf(n, t) == [start |-> tree.sp[n], end |-> tree.ep[n], target |-> t]

\* tuple comparison of spans
SpanLt(a, b) ==
    \/ PLt(a.start, b.start)
    \/ a.start = b.start /\ PLt(a.end, b.end)
    \/ a.start = b.start /\ a.end = b.end /\ StrLt(a.target, b.target)

RECURSIVE InsertSpan(_, _)
InsertSpan(x, sorted) ==
    IF sorted = <<>> THEN <<x>>
    ELSE IF SpanLt(x, Head(sorted)) THEN <<x>> \o sorted
    ELSE <<Head(sorted)>> \o InsertSpan(x, Tail(sorted))

\* sorted(spans)
RECURSIVE Sorted(_)
Sorted(spans) ==
    IF spans = <<>> THEN <<>>
    ELSE InsertSpan(spans[Len(spans)], Sorted(SubSeq(spans, 1, Len(spans) - 1)))

\* _is_overlapping: sorted_spans[i][1] >= sorted_spans[i + 1][0] for some i
IsOverlapping(spans) ==
    LET sorted_spans == Sorted(spans)
    IN \E i \in 1 .. (Len(sorted_spans) - 1) :
          PLe(sorted_spans[i + 1].start, sorted_spans[i].end)

\* the splice both replace functions make on their copy of the lines;
\* indexing a line that does not exist raises IndexError
ReplaceSpan(lines, start, end, tgt) ==
    IF start[1] + 1 > Len(lines) \/ end[1] + 1 > Len(lines)
    THEN [err |-> "IndexError", lines |-> lines]
    ELSE LET prefix == Slice(lines[start[1] + 1], 0, start[2])
             postfix == SliceFrom(lines[end[1] + 1], end[2])
         IN [err |-> None,
             lines |-> SubSeq(lines, 1, start[1]) \o <<prefix \o tgt \o postfix>>
                          \o SubSeq(lines, end[1] + 2, Len(lines))]

\* _replace(ast, node, target): the text, and ast.source_lines afterwards
Replace(n, tgt) ==
    LET r == ReplaceSpan(source_lines, tree.sp[n], tree.ep[n], tgt)
    IN [err |-> r.err,
        text |-> IF r.err = None THEN JoinLines(r.lines) ELSE <<>>,
        stored |-> source_lines]

\* the loop of _replace_all over the spans in descending order
RECURSIVE ApplySpans(_, _)
ApplySpans(spans, lines) ==
    IF spans = <<>> THEN [err |-> None, lines |-> lines]
    ELSE LET r == ReplaceSpan(lines, Head(spans).start, Head(spans).end,
                              Head(spans).target)
         IN IF r.err # None THEN r ELSE ApplySpans(Tail(spans), r.lines)

\* a replace_all that pairs the nodes it has with the texts it has
ReplaceAllZip(nodes, targets) ==
    LET k == IF Len(nodes) < Len(targets) THEN Len(nodes) ELSE Len(targets)
        spans == [i \in 1 .. k |-> SpanOf(nodes[i], targets[i])]
    IN IF IsOverlapping(spans)
       THEN [err |-> "AssertionError", text |-> <<>>, stored |-> source_lines]
       ELSE LET r == ApplySpans(Reverse(Sorted(spans)), source_lines)
            IN [err |-> r.err,
                text |-> IF r.err = None THEN JoinLines(r.lines) ELSE <<>>,
                stored |-> source_lines]

\* _replace_all(ast, nodes, targets)
ReplaceAll(nodes, targets) ==
    IF Len(nodes) # Len(targets)
    THEN [err |-> "AssertionError", text |-> <<>>, stored |-> source_lines]
    ELSE LET spans == [i \in 1 .. Len(nodes) |-> SpanOf(nodes[i], targets[i])]
         IN IF IsOverlapping(spans)
            THEN [err |-> "AssertionError", text |-> <<>>, stored |-> source_lines]
            ELSE LET r == ApplySpans(Reverse(Sorted(spans)), source_lines)
                 IN [err |-> r.err,
                     text |-> IF r.err = None THEN JoinLines(r.lines) ELSE <<>>,
                     stored |-> source_lines]

\* the texts a call with k targets hands over
TextsOf(k) == [i \in 1 .. k |-> Targets[i]]

\* ast.replace(node, target)
CallReplace ==
    /\ call = None
    /\ \E n \in Nodes :
        LET r == Replace(n, Targets[1])
        IN /\ call' = "replace"
           /\ call_args' = [nodes |-> <<n>>, texts |-> TextsOf(1), lines |-> source_lines]
           /\ err' = r.err
           /\ result' = IF r.err = None THEN r.text ELSE None
           /\ source_lines' = r.stored
           /\ UNCHANGED <<tree, src, cfgVars, walkVars, code_lines, synthVars, walks,
                          execVars, visited>>

\* ast.replace_all(nodes, targets)
CallReplaceAll ==
    /\ call = None
    /\ \E k \in 0 .. MaxSpans : \E j \in 0 .. MaxSpans : \E nodes \in [1 .. k -> Nodes] :
        LET r == ReplaceAll(nodes, TextsOf(j))
        IN /\ call' = "replace_all"
           /\ call_args' = [nodes |-> nodes, texts |-> TextsOf(j), lines |-> source_lines]
           /\ err' = r.err
           /\ result' = IF r.err = None THEN r.text ELSE None
           /\ source_lines' = r.stored
           /\ UNCHANGED <<tree, src, cfgVars, walkVars, code_lines, synthVars, walks,
                          execVars, visited>>

\* lines that stop short of the source: the first k lines, the last of
\* them cut to m characters
CutLines(lines, k, m) ==
    [i \in 1 .. k |-> IF i = k THEN Slice(lines[i], 0, m) ELSE lines[i]]

LineVariants(lines) ==
    {<<>>} \cup {CutLines(lines, k, m) : k \in 1 .. Len(lines), m \in 0 .. 3}

\* match_span(node, lines) on the lines of the AST or on lines that stop
\* short, once per AST
CallMatchSpan ==
    /\ call = None
    /\ \E n \in Nodes : \E lines \in LineVariants(source_lines) \cup {source_lines} :
        LET r == match_span(n, lines)
        IN /\ call' = "match_span"
           /\ call_args' = [nodes |-> <<n>>, texts |-> <<>>, lines |-> lines]
           /\ err' = r.err
           /\ result' = IF r.err = None THEN r.text ELSE None
           /\ UNCHANGED <<astVars, cfgVars, walkVars, code_lines, synthVars, walks,
                          execVars, visited>>

----------------------------------------------------------------------------
(* Specifications *)

NextWalk ==
    \/ VisitAST
    \/ StartWalk
    \/ Enter
    \/ Leave
    \/ LeaveParent
    \/ Finish

NextResume ==
    \/ StartWalk
    \/ Enter
    \/ Leave
    \/ LeaveParent
    \/ Finish
    \/ StartSolo

Next ==
    \/ VisitAST
    \/ FromCodeLines
    \/ StartWalk
    \/ Enter
    \/ Leave
    \/ LeaveParent
    \/ Finish
    \/ CallEdit
    \/ CallCode
    \/ ExecNoop
    \/ ExecSubtree
    \/ ExecEdit
    \/ ExecFinish

\* a transformer whose handlers return at most one literal text, on every
\* layout of the shapes, and the test's MirrorAddTransformer on its source
Init ==
    \/ \E i \in 1 .. NumShapes : \E gaps \in GapsFor(Shapes[i]) :
          InitWith(Shapes[i], gaps, "ASTTransformer", "TextEditor", 1, 1)
    \/ InitWith(ShapeA, GapsA, "ASTTransformer", "MirrorAddTransformer", 1, 0)

Spec == Init /\ [][Next]_vars

\* a transformer whose handlers return any edit and may decline descent
InitSynth ==
    \E i \in 1 .. NumShapes :
        InitWith(Shapes[i], PlainGaps(Shapes[i]), "ASTTransformer", "Any", 1, MaxEdits)

SpecSynth == InitSynth /\ [][Next]_vars

\* a transformer object that is walked more than once; its handlers return
\* at most one literal text and may decline descent
InitReuse ==
    \E i \in 1 .. NumShapes :
        InitWith(Shapes[i], PlainGaps(Shapes[i]), "ASTTransformer", "Reused", 1, 1)

SpecReuse == InitReuse /\ [][Next]_vars

\* a plain visitor
InitWalk ==
    \/ \E i \in 1 .. NumShapes :
          InitWith(Shapes[i], PlainGaps(Shapes[i]), "ASTVisitor", "Any", 1, 0)
    \/ InitWith(ShapeA, GapsA, "ASTVisitor", "IdCounter", 1, 0)

SpecWalk == InitWalk /\ [][NextWalk]_vars

\* VisitorComposition(v1 .. vk)
InitAnd ==
    \E i \in 1 .. NumShapes : \E k \in 1 .. MaxVisitors :
        InitWith(Shapes[i], PlainGaps(Shapes[i]), "VisitorComposition", "Any", k, 0)

SpecAnd == InitAnd /\ [][NextWalk]_vars

\* ResumingVisitorComposition(v1 .. vk), then every component alone
InitResume ==
    \E i \in 1 .. NumShapes : \E k \in 1 .. MaxVisitors :
        InitWith(Shapes[i], PlainGaps(Shapes[i]), "ResumingVisitorComposition", "Any", k, 0)

SpecResume == InitResume /\ [][NextResume]_vars

NextCollect ==
    \/ VisitTree
    \/ EnterCollect
    \/ Leave
    \/ LeaveParent
    \/ FinishCollect

\* visit_tree with a function, with a type name, and with a value that is
\* neither
InitCollect ==
    \E i \in 1 .. NumShapes : \E c \in {"Callable", "ByType", "NotCallable"} :
        InitWith(Shapes[i], PlainGaps(Shapes[i]), "CollectingVisitor", c, 1, MaxHits)

SpecCollect == InitCollect /\ [][NextCollect]_vars

NextReplace ==
    \/ CallReplace
    \/ CallReplaceAll
    \/ CallMatchSpan

\* the layouts the replace functions are run on: tokens that touch, tokens
\* on one line and tokens on different lines
ReplaceGapSet == { <<>>, <<" ">>, <<LF>> }

\* an AST without a visitor
InitReplace ==
    \E i \in 1 .. NumShapes :
        \E gaps \in [1 .. (Len(LeavesOf(Shapes[i])) + 1) -> ReplaceGapSet] :
            InitWith(Shapes[i], gaps, "None", "None", 1, 0)

SpecReplace == InitReplace /\ [][NextReplace]_vars

\* walk and EditExecutor.walk are loops of one thread: once started they
\* keep taking their steps
WalkStep == Enter \/ Leave \/ LeaveParent \/ Finish
ExecStep == ExecNoop \/ ExecSubtree \/ ExecEdit \/ ExecFinish

\* plain visitors and transformers, with loops that run on
InitLive == InitWalk \/ InitSynth

SpecLive == InitLive /\ [][Next]_vars /\ WF_vars(WalkStep) /\ WF_vars(ExecStep)

----------------------------------------------------------------------------
(* Notions the properties are stated with *)

\* the positions of the event log where component v's handler ev ran on n
At(log, v, ev, n) ==
    {i \in 1 .. Len(log) : log[i].v = v /\ log[i].ev = ev /\ log[i].node = n}

\* the events of component v, in order
RECURSIVE OfVisitor(_, _)
OfVisitor(log, v) ==
    IF log = <<>> THEN <<>>
    ELSE (IF Head(log).v = v THEN <<Head(log)>> ELSE <<>>) \o OfVisitor(Tail(log), v)

\* an enter handler of component v returned False at node n
Declined(log, v, n) ==
    \E i \in At(log, v, "enter", n) : log[i].res = "False"

NoDecline(log) ==
    \A i \in 1 .. Len(log) : log[i].ev = "enter" => log[i].res # "False"

\* the child of its parent that precedes n, or 0
PrevSibling(n) ==
    LET p == tree.par[n]
    IN IF p = 0 THEN 0
       ELSE LET i == IndexIn(tree.kids[p], n)
            IN IF i > 1 THEN tree.kids[p][i - 1] ELSE 0

\* the nodes whose leave handler returned an edit
Edited ==
    {n \in Nodes : \E i \in At(events, 1, "leave", n) :
                      NormalizeUpdate(events[i].res) # NoEdit}

\* the number of characters of s before point p
OffsetOf(s, p) == CHOOSE off \in 0 .. Len(s) : PointAt(s, off) = p

\* s with the span from point a to point b replaced by t
Spliced(s, a, b, t) ==
    SubSeq(s, 1, OffsetOf(s, a)) \o t \o SubSeq(s, OffsetOf(s, b) + 1, Len(s))

HasCR(s) == \E i \in 1 .. Len(s) : s[i] = CR

\* "def foo(x, y):\n return y + x"
SwappedA ==
    <<"d", "e", "f", " ", "f", "o", "o", "(", "x", ",", " ", "y", ")", ":", LF,
      " ", "r", "e", "t", "u", "r", "n", " ", "y", " ", "+", " ", "x">>

\* code() returned
CodeReturned == call = "code" /\ xpc = "done"

\* Lemma: the pipeline on the test source, walked directly rather than through visit
MirrorDirect ==
    (cls = "MirrorAddTransformer" /\ CodeReturned /\ walks = 1) => result = SwappedA

\* Lemma: code() is the identity on sources without carriage returns and without edits
IdentityNoCR ==
    (cls = "TextEditor" /\ CodeReturned /\ walks = 1 /\ Edited = {} /\ ~HasCR(src))
        => result = src

\* claim C1: a transformer whose handlers return no edit reproduces the
\* source exactly, line endings included
C1_Identity ==
    (cls = "TextEditor" /\ CodeReturned /\ walks = 1 /\ Edited = {})
        => result = src

\* claim C2: with one edit, on a leaf N, code() is the source with the text
\* of N's span replaced and every character outside the span unchanged
C2_Localization ==
    (cls = "TextEditor" /\ CodeReturned /\ walks = 1)
        => \A n \in Edited :
              child_count(n) = 0
                 => result = Spliced(src, tree.sp[n], tree.ep[n], <<"T">>)

\* claim C3: after SourceCodeAST.visit(transformer) on the test's source,
\* code() returns the source with the operands of + swapped
C3_SwapViaVisit ==
    (cls = "MirrorAddTransformer" /\ visited /\ call = "code")
        => (err = None /\ (xpc = "done" => result = SwappedA))

\* claim C4: SourceCodeAST.visit(v) with an ASTVisitor completes without
\* error and runs visit_identifier once per identifier node
C4_VisitCounts ==
    (kind = "ASTVisitor" /\ visited /\ call = "visit")
        => /\ err = None
           /\ Cardinality({i \in 1 .. Len(events) :
                             events[i].fn = <<"visit", "identifier">>})
                = Cardinality({n \in Nodes : tree.type[n] = "identifier"})

\* claim C5: enter events come in pre-order and leave events in post-order,
\* properly nested: enter(N) precedes every event of N's descendants, those
\* precede leave(N), leave(N) precedes the enter of N's next sibling, and
\* siblings are entered in child order
C5_EventOrder ==
    \A j \in 1 .. Len(events) :
        LET n == events[j].node
        IN /\ \A i \in 1 .. Len(events) :
                 /\ (events[i].ev = "enter" /\ n \in Descendants(events[i].node)) => i < j
                 /\ (events[i].ev = "leave" /\ n \in Descendants(events[i].node)) => j < i
           /\ events[j].ev = "leave" => \E i \in At(events, 1, "enter", n) : i < j
           /\ (events[j].ev = "enter" /\ tree.par[n] # 0)
                 => \E i \in At(events, 1, "enter", tree.par[n]) : i < j
           /\ (events[j].ev = "enter" /\ PrevSibling(n) # 0)
                 => \E i \in At(events, 1, "leave", PrevSibling(n)) : i < j

\* a finished walk that descended into a node with children and then
\* entered that node's next sibling
C5_Witness ==
    /\ kind = "ASTVisitor"
    /\ pc = "done"
    /\ \E n \in Nodes :
          /\ child_count(n) > 0
          /\ NextSibling(n) # 0
          /\ At(events, 1, "enter", tree.kids[n][1]) # {}
          /\ At(events, 1, "enter", NextSibling(n)) # {}

\* claim C6: every entered node is left exactly once, whether or not the
\* walk descended into it, and nothing below a declined node gets an event
C6_LeaveOnce ==
    \A n \in Nodes :
        /\ Cardinality(At(events, 1, "leave", n)) <= Cardinality(At(events, 1, "enter", n))
        /\ Cardinality(At(events, 1, "enter", n)) <= 1
        /\ pc = "done" =>
              Cardinality(At(events, 1, "leave", n)) = Cardinality(At(events, 1, "enter", n))
        /\ Declined(events, 1, n) =>
              \A i \in 1 .. Len(events) : events[i].node \notin Descendants(n)

\* a finished walk that declined descent at a node with children and left it
C6_Witness ==
    /\ kind = "ASTVisitor"
    /\ pc = "done"
    /\ \E n \in Nodes :
          /\ child_count(n) > 0
          /\ Declined(events, 1, n)
          /\ At(events, 1, "leave", n) # {}
    /\ \E m \in Nodes : child_count(m) > 0 /\ ~Declined(events, 1, m)
                          /\ At(events, 1, "leave", m) # {}

\* claim C7: a VisitorComposition descends into N only if every component
\* agreed at N, nothing below a node some component declined is visited,
\* and every leave goes to all k components in their order
C7_AndComposition ==
    /\ \A j \in 1 .. Len(events) :
          LET n == events[j].node
          IN /\ tree.par[n] # 0 =>
                   \A v \in 1 .. nvis :
                      \E i \in At(events, v, "enter", tree.par[n]) :
                          i < j /\ events[i].res # "False"
             /\ \A v \in 1 .. nvis : \A a \in Nodes :
                   (Declined(events, v, a) => n \notin Descendants(a))
             /\ events[j].ev = "leave" =>
                   /\ events[j].v > 1 =>
                         /\ events[j - 1].ev = "leave"
                         /\ events[j - 1].node = n
                         /\ events[j - 1].v = events[j].v - 1
                   /\ events[j].v < nvis =>
                         /\ j < Len(events)
                         /\ events[j + 1].ev = "leave"
                         /\ events[j + 1].node = n
                         /\ events[j + 1].v = events[j].v + 1

\* a finished walk of two components in which the first declined at a node
\* with children, so the second got that node's leave without its enter
C7_Witness ==
    /\ kind = "VisitorComposition"
    /\ nvis = 2
    /\ pc = "done"
    /\ \E n \in Nodes :
          /\ child_count(n) > 0
          /\ Declined(events, 1, n)
          /\ At(events, 2, "leave", n) # {}
    /\ \E m \in Nodes : Declined(events, 2, m)

\* claim C8: under ResumingVisitorComposition every component receives the
\* events it receives when it walks the tree alone, and after the walk all
\* components are active
C8_ResumeEquivalence ==
    /\ (pc = "done" /\ phase = nvis) =>
          \A v \in 1 .. nvis : OfVisitor(events, v) = solo[v]
    /\ pc = "done" => \A v \in 1 .. nvis : active[v]
    /\ \A v \in 1 .. nvis : \A n \in Nodes :
          Declined(events, v, n) =>
             /\ \A i \in 1 .. Len(events) :
                   events[i].v = v => events[i].node \notin Descendants(n)
             /\ (active[v] \/ pc = "done") => At(events, v, "leave", n) # {}

\* all walks are over, one component declined at a node with children that
\* has a following sibling, and another component went below that node
C8_Witness ==
    /\ kind = "ResumingVisitorComposition"
    /\ nvis = 2
    /\ pc = "done"
    /\ phase = nvis
    /\ \E n \in Nodes :
          /\ child_count(n) > 0
          /\ NextSibling(n) # 0
          /\ Declined(events, 1, n)
          /\ At(events, 2, "enter", tree.kids[n][1]) # {}
          /\ At(events, 1, "enter", NextSibling(n)) # {}

\* the child trees of et are the trees of its node's children, in order
MirrorsChildren(et) ==
    /\ Len(et.children) = child_count(et.source_node)
    /\ \A i \in 1 .. Len(et.children) :
          et.children[i].source_node = tree.kids[et.source_node][i]

\* every tree above an edited node kept its child trees
RECURSIVE RetainsPaths(_)
RetainsPaths(et) ==
    (Descendants(et.source_node) \cap Edited # {})
        => /\ MirrorsChildren(et)
           /\ \A i \in 1 .. Len(et.children) : RetainsPaths(et.children[i])

\* claim C9: in a walk by a fresh transformer that declines no descent, the
\* trees popped at leave(N) are those of N's children in child order; when
\* the walk ends one tree remains, for the root, and the child trees are
\* kept along every path from the root to an edited node
C9_SynthesisMirrors ==
    (walks = 1 /\ NoDecline(events)) =>
        /\ pc # "error"
        /\ (events # <<>> /\ events[Len(events)].ev = "leave") =>
              /\ edit_trees # <<>>
              /\ edit_trees[Len(edit_trees)].source_node = events[Len(events)].node
              /\ MirrorsChildren(edit_trees[Len(edit_trees)])
        /\ pc = "done" =>
              /\ Len(edit_trees) = 1
              /\ edit_trees[1].source_node = Root
              /\ RetainsPaths(edit_trees[1])

\* a finished first walk without declines in which a grandchild of the
\* root and another node were edited
C9_Witness ==
    /\ walks = 1
    /\ pc = "done"
    /\ NoDecline(events)
    /\ \E n \in Edited : tree.par[n] # 0 /\ tree.par[tree.par[n]] # 0
    /\ Cardinality(Edited) = 2

\* edit() and code() fail exactly when the stack does not hold one tree
CompletionCheck ==
    /\ call = "edit" =>
          IF Len(edit_trees) = 1
          THEN err = None /\ result = edit_trees[1]
          ELSE err = "AssertionError" /\ result = None
    /\ call = "code" =>
          IF Len(edit_trees) = 1
          THEN xpc # "idle"
          ELSE err = "AssertionError" /\ result = None /\ xpc = "idle"
    /\ (call \in {"edit", "code"} /\ walks = 0) => err = "AssertionError"

RECURSIVE WrapsOwnChildren(_)
WrapsOwnChildren(et) ==
    \A i \in 1 .. Len(et.children) :
        /\ \E j \in 1 .. child_count(et.source_node) :
              et.children[i].source_node = tree.kids[et.source_node][j]
        /\ WrapsOwnChildren(et.children[i])

\* claim C11: when leave(N) runs on a transformer after descent into N was
\* declined and N has children, synthesis fails with an error at N, and no
\* EditTree is ever built whose children are trees of nodes that are not
\* children of its node
C11_MismatchFatal ==
    walks = 1 =>
        /\ \A n \in Nodes :
              (Declined(events, 1, n) /\ child_count(n) > 0
                 /\ At(events, 1, "leave", n) # {})
                 => (pc = "error" /\ cursor = n)
        /\ \A i \in 1 .. Len(edit_trees) : WrapsOwnChildren(edit_trees[i])

\* what the leave handler returned for node n, normalised
HandlerEdit(n) ==
    LET i == CHOOSE i \in At(events, 1, "leave", n) : TRUE
    IN NormalizeUpdate(events[i].res)

\* the trees for node n in and below et
RECURSIVE TreesOf(_, _)
TreesOf(et, n) ==
    (IF et.source_node = n THEN {et} ELSE {})
        \cup UNION {TreesOf(et.children[i], n) : i \in 1 .. Len(et.children)}

\* the text a reference to node n stands for: n's own edit compiled against
\* the trees of n's children, or n's source text when n has no edit
Resolved(n) ==
    IF n \in Edited
    THEN LET t == CHOOSE t \in TreesOf(edit_trees[1], n) : TRUE
         IN Compile(HandlerEdit(n), t.children, code_lines).text
    ELSE match_span(n, code_lines).text

\* claim C12: the text emitted for a node whose handler returned
\* TreeUpdate(n) is n's own edit compiled against n's children when n, a
\* child or deeper descendant, carries an edit, and n's source text otherwise
C12_TreeReference ==
    (walks = 1 /\ NoDecline(events) /\ pc = "done" /\ Len(edit_trees) = 1) =>
        \A k \in 1 .. Len(pieces) :
            (pieces[k].kind = "edit" /\ HandlerEdit(pieces[k].node).type = "TreeUpdate")
                => pieces[k].text = Resolved(HandlerEdit(pieces[k].node).node)

\* the nodes above n
RECURSIVE Ancestors(_)
Ancestors(n) ==
    IF tree.par[n] = 0 THEN {} ELSE {tree.par[n]} \cup Ancestors(tree.par[n])

\* the nodes whose leave handler returned a bare string while the handlers
\* of all nodes above returned no edit
LiteralNodes ==
    {n \in Nodes : /\ \E i \in At(events, 1, "leave", n) : events[i].res.type = "str"
                   /\ Ancestors(n) \cap Edited = {}}

\* the parts of the output, by position, that are the edit of node n
EditPieces(n) ==
    {k \in 1 .. Len(pieces) : pieces[k].kind = "edit" /\ pieces[k].node = n}

\* claim C13: a bare string t returned for N, with no edit above N, makes
\* the executor emit exactly t for N: no source text from inside N's span
\* is copied and no edit of a descendant of N is emitted
C13_LiteralCoversSpan ==
    (walks = 1 /\ NoDecline(events) /\ pc = "done" /\ call = "code") =>
        \A n \in LiteralNodes :
            /\ xpc = "done" =>
                  /\ Cardinality(EditPieces(n)) = 1
                  /\ \A k \in EditPieces(n) :
                        \E i \in At(events, 1, "leave", n) :
                            pieces[k].text = events[i].res.text
            /\ \A k \in 1 .. Len(pieces) :
                  /\ pieces[k].kind = "copy" =>
                        ~(PLt(pieces[k].from, tree.ep[n]) /\ PLt(tree.sp[n], pieces[k].to))
                  /\ pieces[k].kind = "edit" => pieces[k].node \notin Descendants(n)

\* code() returned after a bare string was returned for a node below the
\* root that has children, one of which was edited too
C13_Witness ==
    /\ walks = 1
    /\ NoDecline(events)
    /\ CodeReturned
    /\ \E n \in LiteralNodes :
          /\ n # Root
          /\ child_count(n) > 0
          /\ Descendants(n) \cap Edited # {}
          /\ EditPieces(n) # {}

\* the evaluations of the visitor function, in order
RECURSIVE MapEvents(_)
MapEvents(log) ==
    IF log = <<>> THEN <<>>
    ELSE (IF Head(log).ev = "map" THEN <<Head(log)>> ELSE <<>>) \o MapEvents(Tail(log))

\* the entries a sequence of evaluations must leave in the result list
RECURSIVE EntriesFor(_)
EntriesFor(ms) ==
    IF ms = <<>> THEN <<>>
    ELSE (IF Head(ms).res = "True" THEN <<[node |-> Head(ms).node, value |-> "node"]>>
          ELSE IF Head(ms).res \in {"One", "Text"}
               THEN <<[node |-> 0, value |-> Head(ms).res]>>
          ELSE <<>>) \o EntriesFor(Tail(ms))

\* claim C14: visit_tree with a function evaluates it once on every node,
\* in pre-order and without pruning, and returns one entry per truthy
\* result, in that order: the node for True, the value itself otherwise,
\* nothing for False or None; a type name T selects the nodes of type T
C14_CollectingVisit ==
    kind = "CollectingVisitor" =>
        LET ms == MapEvents(events)
        IN /\ \A k \in 1 .. Len(ms) : ms[k].node = k
           /\ results = EntriesFor(ms)
           /\ \A k \in 1 .. Len(ms) :
                 ms[k].res \in {"False", "None"} =>
                    \A j \in 1 .. Len(results) : results[j].node # ms[k].node
           /\ pc = "done" =>
                 /\ Len(ms) = Cardinality(Nodes)
                 /\ err = None
                 /\ result = results
                 /\ cls = "ByType" =>
                       /\ \A j \in 1 .. Len(result) :
                             /\ result[j].value = "node"
                             /\ tree.type[result[j].node] = TypeArg
                             /\ j > 1 => result[j - 1].node < result[j].node
                       /\ \A n \in Nodes :
                             tree.type[n] = TypeArg
                                => \E j \in 1 .. Len(result) : result[j].node = n

\* visit_tree returned after the function gave True for an inner node and
\* a truthy value for a node below it
C14_Witness ==
    /\ kind = "CollectingVisitor"
    /\ cls = "Callable"
    /\ pc = "done"
    /\ Len(result) = 2
    /\ result[1].value = "node"
    /\ child_count(result[1].node) > 0
    /\ result[2].value = "Text"

\* claim C15: every value other than None and the booleans that the
\* visitor function returns for a node is in the list visit_tree returns,
\* also 0, the empty string and the empty list
C15_NonNoneIncluded ==
    (kind = "CollectingVisitor" /\ pc = "done") =>
        \A k \in 1 .. Len(events) :
            (events[k].ev = "map" /\ events[k].res \notin {"None", "True", "False"})
                => \E j \in 1 .. Len(result) : result[j].value = events[k].res

\* the lines of ls with the span from point a to point b collapsed into one
\* line: the start line before a, then t, then the end line from b on
Collapsed(ls, a, b, t) ==
    [i \in 1 .. (Len(ls) - (b[1] - a[1])) |->
        IF i <= a[1] THEN ls[i]
        ELSE IF i = a[1] + 1
             THEN SubSeq(ls[a[1] + 1], 1, a[2]) \o t
                     \o SubSeq(ls[b[1] + 1], b[2] + 1, Len(ls[b[1] + 1]))
        ELSE ls[i + (b[1] - a[1])]]

\* claim C16: replace(node, text) returns the lines joined by newlines with
\* the lines of node's span collapsed into prefix, text and suffix, all
\* other lines as they were, and leaves the stored source_lines alone
C16_SingleReplace ==
    call = "replace" =>
        LET n == call_args.nodes[1]
        IN /\ err = None
           /\ result = JoinLines(Collapsed(call_args.lines, tree.sp[n], tree.ep[n],
                                           call_args.texts[1]))
           /\ source_lines = call_args.lines

\* the replace of a node that ends on a line of the source
C16_WhereLinesExist ==
    (call = "replace" /\ tree.ep[call_args.nodes[1]][1] < Len(call_args.lines))
        => C16_SingleReplace

\* spans i and j of the nodes given, i before j, with j starting at or
\* before the end of i
OverlapByPosition(nodes) ==
    \E i \in 1 .. Len(nodes) : \E j \in 1 .. Len(nodes) :
        /\ i # j
        /\ PLe(tree.sp[nodes[i]], tree.sp[nodes[j]])
        /\ PLe(tree.sp[nodes[j]], tree.ep[nodes[i]])

\* claim C17: replace_all raises a usage error, returns no text and leaves
\* source_lines alone whenever the numbers of nodes and texts differ or,
\* in the order of their starts, a span ends at or after the start of the
\* next one
C17_BatchRejection ==
    (call = "replace_all"
       /\ (Len(call_args.nodes) # Len(call_args.texts) \/ OverlapByPosition(call_args.nodes)))
        => /\ err = "AssertionError"
           /\ result = None
           /\ source_lines = ParseLines(src)

\* replace_all got a node and one of its descendants with two texts and
\* raised
C17_Witness ==
    /\ call = "replace_all"
    /\ Len(call_args.nodes) = 2
    /\ Len(call_args.texts) = 2
    /\ call_args.nodes[2] \in Descendants(call_args.nodes[1])
    /\ err = "AssertionError"

\* the number of characters of the joined lines before point p
RECURSIVE LineOffset(_, _)
LineOffset(ls, p) ==
    IF p[1] = 0 \/ ls = <<>> THEN p[2]
    ELSE Len(Head(ls)) + 1 + LineOffset(Tail(ls), <<p[1] - 1, p[2]>>)

\* text with the spans of the nodes numbered in idx replaced by their
\* texts, seen as character ranges of the joined lines
RECURSIVE FlatReplace(_, _, _, _, _)
FlatReplace(text, ls, nodes, texts, idx) ==
    IF idx = {} THEN text
    ELSE LET i == CHOOSE i \in idx :
                     \A j \in idx : PLe(tree.sp[nodes[j]], tree.sp[nodes[i]])
             a == LineOffset(ls, tree.sp[nodes[i]])
             b == LineOffset(ls, tree.ep[nodes[i]])
         IN FlatReplace(SubSeq(text, 1, a) \o texts[i] \o SubSeq(text, b + 1, Len(text)),
                        ls, nodes, texts, idx \ {i})

Replaced(ls, nodes, texts) ==
    FlatReplace(JoinLines(ls), ls, nodes, texts, 1 .. Len(nodes))

\* claim C18: replace_all on two spans of which one ends where the other
\* starts succeeds with both replacements made, and raises a usage error
\* on two spans that share a character
C18_TouchingAccepted ==
    (call = "replace_all" /\ Len(call_args.nodes) = 2 /\ Len(call_args.texts) = 2) =>
        LET a == call_args.nodes[1]
            b == call_args.nodes[2]
        IN /\ (tree.ep[a] = tree.sp[b] /\ tree.ep[b][1] < Len(call_args.lines)) =>
                 /\ err = None
                 /\ result = Replaced(call_args.lines, call_args.nodes, call_args.texts)
           /\ (PLe(tree.sp[a], tree.sp[b]) /\ PLt(tree.sp[b], tree.ep[a])) =>
                 err = "AssertionError"

PairwiseDisjoint(nodes) ==
    \A i \in 1 .. Len(nodes) : \A j \in 1 .. Len(nodes) :
        i # j => (PLe(tree.ep[nodes[i]], tree.sp[nodes[j]])
                    \/ PLe(tree.ep[nodes[j]], tree.sp[nodes[i]]))

\* claim C19: for pairwise disjoint spans replace_all succeeds in every
\* order of the (node, text) pairs and returns the same text, the source
\* with every span replaced by its text
C19_OrderIndependence ==
    (call = "replace_all" /\ Len(call_args.nodes) = Len(call_args.texts)
       /\ PairwiseDisjoint(call_args.nodes)) =>
        /\ err = None
        /\ result = Replaced(call_args.lines, call_args.nodes, call_args.texts)
        /\ ReplaceAll(Reverse(call_args.nodes), Reverse(call_args.texts)).err = None
        /\ ReplaceAll(Reverse(call_args.nodes), Reverse(call_args.texts)).text = result

\* point p lies outside the lines
Beyond(lines, p) ==
    p[1] >= Len(lines) \/ p[2] > Len(lines[p[1] + 1])

\* claim C20: match_span raises an error whenever the start or the end of
\* the node's span names a line that does not exist or a column beyond the
\* end of its line
C20_BoundsError ==
    call = "match_span" =>
        LET n == call_args.nodes[1]
        IN (Beyond(call_args.lines, tree.sp[n]) \/ Beyond(call_args.lines, tree.ep[n]))
              => err # None

\* the walk is inside its loop
Walking == pc \in {"visit", "leave", "up"}

\* what holds of the events and of the executor at every moment
BoundedWork ==
    /\ \A n \in Nodes :
          /\ Cardinality(At(events, 1, "enter", n)) <= 1
          /\ Cardinality(At(events, 1, "leave", n)) <= 1
    /\ pc = "done" =>
          /\ events # <<>>
          /\ events[Len(events)].ev = "leave"
          /\ events[Len(events)].node = Root
    /\ \A i \in 1 .. Len(executed) : \A j \in 1 .. Len(executed) :
          i # j => executed[i] # executed[j]
    /\ xpc = "done" => edit_stack = <<>>

\* claim C21: a walk that was started stops, with leave(root) as its last
\* event when it returns and at most one enter and one leave per node; the
\* executor, once started, stops with an empty stack and has executed no
\* tree twice
C21_Termination ==
    /\ Walking ~> (pc \in {"done", "error"})
    /\ (xpc = "run") ~> (xpc \in {"done", "error"})
    /\ []BoundedWork

\* the executor finished on a tree of at least four nodes, after a walk
\* that declined no descent and returned two edits
C21_Witness ==
    /\ pc = "done"
    /\ xpc = "done"
    /\ Len(executed) >= 4
    /\ Cardinality(Edited) = 2

\* edit() returned the tree of a complete walk of a fresh transformer
EditReturned ==
    /\ call = "edit"
    /\ err = None
    /\ walks = 1
    /\ pc = "done"
    /\ NoDecline(events)

\* every tree in and below et that has no operation and no edited
\* descendant has no children
RECURSIVE Pruned(_)
Pruned(et) ==
    /\ (et.target_edit = NoEdit /\ Descendants(et.source_node) \cap Edited = {})
          => et.children = <<>>
    /\ \A i \in 1 .. Len(et.children) : Pruned(et.children[i])

\* claim C22: in the tree edit() returns after a complete walk, every
\* node, the root included, that has no operation and no edited descendant
\* has an empty children list
C22_PruningInvariant ==
    EditReturned => Pruned(result)

\* the same for the trees below the root
C22_BelowRoot ==
    EditReturned => \A i \in 1 .. Len(result.children) : Pruned(result.children[i])

\* in and below et: no operation exactly where neither the node nor a
\* descendant got an edit from a handler, and the delegation marker on
\* every node without an edit of its own above an edited one
RECURSIVE Delegates(_)
Delegates(et) ==
    LET n == et.source_node
    IN /\ (et.target_edit = NoEdit) <=> (({n} \cup Descendants(n)) \cap Edited = {})
       /\ (n \notin Edited /\ Descendants(n) \cap Edited # {})
             => et.target_edit = SubtreeUpdate
       /\ n \in Edited => et.target_edit = HandlerEdit(n)
       /\ \A i \in 1 .. Len(et.children) : Delegates(et.children[i])

\* claim C23: in the tree built by a complete walk a node's operation is
\* absent if and only if neither it nor any of its descendants received an
\* edit from a handler, and a node without an edit of its own above an
\* edited descendant carries the subtree-delegation marker
C23_DelegationInvariant ==
    EditReturned => Delegates(result)

\* edit() returned a tree whose root delegates to a child that delegates
\* to an edited grandchild, next to a child without any edit
C23_Witness ==
    /\ EditReturned
    /\ result.target_edit = SubtreeUpdate
    /\ Root \notin Edited
    /\ \E i \in 1 .. Len(result.children) :
          /\ result.children[i].target_edit = SubtreeUpdate
          /\ result.children[i].source_node \notin Edited
    /\ \E i \in 1 .. Len(result.children) : result.children[i].target_edit = NoEdit

\* the characters of the joined lines from point a up to point b
FlatText(ls, a, b) ==
    SubSeq(JoinLines(ls), LineOffset(ls, a) + 1, LineOffset(ls, b))

\* the text of node n with the edits of its descendants applied: an edited
\* node stands for its compiled edit, any other node for its children's
\* texts with the source between them
RECURSIVE Rendered(_)
RECURSIVE RenderedKids(_, _)
Rendered(n) ==
    IF n \in Edited THEN Resolved(n)
    ELSE IF child_count(n) = 0 THEN FlatText(code_lines, tree.sp[n], tree.ep[n])
    ELSE FlatText(code_lines, tree.sp[n], tree.sp[tree.kids[n][1]]) \o RenderedKids(n, 1)

RenderedKids(n, i) ==
    LET k == tree.kids[n][i]
    IN IF i = child_count(n)
       THEN Rendered(k) \o FlatText(code_lines, tree.ep[k], tree.ep[n])
       ELSE Rendered(k) \o FlatText(code_lines, tree.ep[k], tree.sp[tree.kids[n][i + 1]])
               \o RenderedKids(n, i + 1)

\* claim C24: where TreeUpdate(n) is compiled and n has no edit of its own
\* but an edited descendant, the text is n's source text or that text with
\* the descendants' edits applied; the delegation marker is not compiled
\* into output
C24_DelegatingReference ==
    (walks = 1 /\ NoDecline(events) /\ pc = "done" /\ Len(edit_trees) = 1) =>
        \A k \in 1 .. Len(pieces) :
            (/\ pieces[k].kind = "edit"
             /\ HandlerEdit(pieces[k].node).type = "TreeUpdate"
             /\ HandlerEdit(pieces[k].node).node \notin Edited
             /\ Descendants(HandlerEdit(pieces[k].node).node) \cap Edited # {})
                => \/ pieces[k].text = match_span(HandlerEdit(pieces[k].node).node,
                                                  code_lines).text
                   \/ pieces[k].text = Rendered(HandlerEdit(pieces[k].node).node)

\* transformers over sources with and without line breaks
InitExec == Init \/ InitSynth

SpecExec == InitExec /\ [][Next]_vars

\* the ranges of the source that _move_cursor copied, in the order copied
CopyPieces == SelectSeq(pieces, LAMBDA p : p.kind = "copy")

\* the executor popped the trees of increasing nodes (nodes are numbered in
\* document order), and its copies follow each other without overlap
InOrder ==
    /\ \A i, j \in 1 .. Len(executed) : i < j => executed[i] < executed[j]
    /\ \A i, j \in 1 .. Len(CopyPieces) :
           i < j => PLe(CopyPieces[i].to, CopyPieces[j].from)
    /\ \A i \in 1 .. Len(CopyPieces) : PLe(CopyPieces[i].from, CopyPieces[i].to)

\* claim C25: the executor processes the trees in document order, its cursor
\* never moves backwards from one step to the next, and no range of the
\* source is copied by the cursor more than once
C25_CursorMonotone ==
    /\ [][xpc = "run" => PLe(xcursor, xcursor')]_vars
    /\ [](xpc # "idle" => InOrder)

\* an execution that finished after two copies around a compiled edit below
\* a delegating root
C25_Witness ==
    /\ xpc = "done"
    /\ err = None
    /\ Len(executed) >= 3
    /\ Len(CopyPieces) >= 2
    /\ \E k \in 1 .. Len(pieces) : pieces[k].kind = "edit" /\ pieces[k].node # Root

\* claim C26: in every state the executor reaches between steps, from its
\* construction to the final flush, the delay position is at or after the
\* cursor
C26_DelayInvariant ==
    xpc \in {"run", "done"} => PLe(xcursor, delay_move)

\* the step compiled the edit of a tree: pieces gained an edit piece
EditStep ==
    /\ Len(pieces') = Len(pieces) + 1 \/ Len(pieces') = Len(pieces) + 2
    /\ pieces'[Len(pieces')].kind = "edit"

\* claim C26, as the code has it: the delay position is at or after the
\* cursor when the executor starts and after every step on a tree without
\* an edit; after a step that compiles the edit of a node the cursor is at
\* the node's end and the delay position is at or before the node's start,
\* behind the cursor
C26_DelayAfterNoop ==
    /\ [](xpc = "run" /\ executed = <<>> => PLe(xcursor, delay_move))
    /\ [][xpc = "run" /\ xpc' = "run" =>
            /\ (edit_stack # <<>> /\ Top.target_edit = NoEdit)
                  => PLe(xcursor', delay_move')
            /\ EditStep
                  => /\ xcursor' = pieces'[Len(pieces')].to
                     /\ PLe(delay_move', pieces'[Len(pieces')].from)]_vars

\* the edit of a leaf below a delegating root was compiled: the cursor is at
\* the leaf's end and the delay position is behind it
C26_Witness ==
    /\ xpc = "run"
    /\ Len(executed) >= 2
    /\ pieces # <<>>
    /\ pieces[Len(pieces)].kind = "edit"
    /\ xcursor = pieces[Len(pieces)].to
    /\ ~PLe(xcursor, delay_move)

\* claim C27: under VisitorComposition every component that receives the
\* leave of a node has received the enter of that node before
C27_BalancedEvents ==
    kind = "VisitorComposition" =>
        \A j \in 1 .. Len(events) :
            events[j].ev = "leave" =>
                \E i \in At(events, events[j].v, "enter", events[j].node) : i < j

\* claim C28: the walk of a plain visitor descends from N exactly when the
\* enter handler of N returned anything but False: after a result other
\* than False (None, 0 and "" included) at a node with children the next
\* event is the enter of N's first child, and after False it is N's leave
C28_OnlyFalseDeclines ==
    kind = "ASTVisitor" =>
        \A i \in 1 .. Len(events) :
            (events[i].ev = "enter" /\ i < Len(events)) =>
                LET n == events[i].node
                IN IF events[i].res # "False" /\ child_count(n) > 0
                   THEN /\ events[i + 1].ev = "enter"
                        /\ events[i + 1].node = tree.kids[n][1]
                   ELSE /\ events[i + 1].ev = "leave"
                        /\ events[i + 1].node = n

\* a finished walk in which the enter handlers returned None, 0 and "" at
\* nodes with children, whose children were entered, and False at another
C28_Witness ==
    /\ kind = "ASTVisitor"
    /\ pc = "done"
    /\ \E n, m \in Nodes :
          /\ n # m
          /\ child_count(n) > 0
          /\ child_count(m) > 0
          /\ \E i \in At(events, 1, "enter", n) : events[i].res \in {"Zero", "EmptyStr"}
          /\ \E i \in At(events, 1, "enter", m) : events[i].res = "None"
          /\ \A k \in 1 .. child_count(n) : At(events, 1, "enter", tree.kids[n][k]) # {}
          /\ \A k \in 1 .. child_count(m) : At(events, 1, "enter", tree.kids[m][k]) # {}
    /\ \E d \in Nodes : Declined(events, 1, d)

====
